---- MODULE Spec2Model ----
(***************************************************************************)
(* Model of the birddog client classes (src/src/birddog/client.py):        *)
(* ClientBase, ApiClient (the unified client / REST backend) and           *)
(* AuthClient (the web backend), driven by a caller that awaits one        *)
(* operation at a time.  One action is one awaited public call; the        *)
(* requests, session releases and open-flag changes it performs are        *)
(* recorded, in order, in `log`.                                           *)
(***************************************************************************)
EXTENDS Integers, Sequences, FiniteSets, TLC

\* ------------------------------------------------------------------ bounds
MaxSessions == 2   \* sessions the clients may create themselves in one run
MaxSources  == 2   \* keys in the device's source map

\* --------------------------------------------------------------- sessions
NoSession     == 0                      \* session is None
CallerSession == 1                      \* the httpx.AsyncClient passed by the caller
OwnSessions   == 2 .. (MaxSessions + 1) \* httpx.AsyncClient objects built by get_session
Sessions      == {CallerSession} \cup OwnSessions

ClientIds == {"api", "comp", "web"}     \* the ApiClient, its auth_client, a stand-alone AuthClient

VARIABLES
    clients,      \* the fields of each client object
    closes,       \* per session: how many times aclose() was called on it
    nextSession,  \* identity of the next httpx.AsyncClient to be constructed
    logins,       \* the client objects on which a login has succeeded
    device,       \* what the device currently answers
    log,          \* events of the most recent call, in program order
    op,           \* the most recent call
    arg,          \* its argument; for get_operation_mode the shape of the device's
                  \* answer, for the AuthClient's get_settings what the page lacks,
                  \* for set_source also what the device answers to the POST
    exc,          \* the exception it raised ("none" when it returned)
    ret           \* the value it returned

vars == <<clients, closes, nextSession, logins, device, log, op, arg, exc, ret>>

\* ------------------------------------------------------- values and results
\* the outcome of a call: the heap it leaves, the exception it raised and
\* the value it returned
Return(h, v) == [h |-> h, exc |-> "none", val |-> v]
Raise(h, e)  == [h |-> h, exc |-> e, val |-> <<>>]
Raised(r)    == r.exc # "none"

\* r = await x; then K(r)
Await(x, K(_)) == CHOOSE y \in {K(r) : r \in {x}} : TRUE

\* r = await x; an exception of x leaves the caller, otherwise K(r)
Try(x, K(_)) == CHOOSE y \in {IF Raised(r) THEN r ELSE K(r) : r \in {x}} : TRUE

\* try: x  finally: F; an exception of the finally block replaces the one in flight
Finally(x, F(_)) ==
    CHOOSE y \in {Await(F(r.h), LAMBDA r2 : IF Raised(r2) THEN r2
                                            ELSE [h |-> r2.h, exc |-> r.exc, val |-> r.val])
                    : r \in {x}} : TRUE

Event(ev, who, verb, path, sess, out, data) ==
    [ev |-> ev, who |-> who, verb |-> verb, path |-> path,
     sess |-> sess, out |-> out, data |-> data]

Emit(h, e) == [h EXCEPT !.log = Append(@, e)]

IsRequest(e) == e.ev = "request"
Requests(l)  == SelectSeq(l, IsRequest)

None == <<>>

\* ------------------------------------------------------------- ClientBase
NoClient ==
    [exists |-> FALSE, session |-> NoSession, owns |-> FALSE, is_open |-> FALSE,
     auth_client |-> FALSE, api_client |-> FALSE, logged_in |-> FALSE,
     settings |-> None]

ClientBase_init(session) ==
    [NoClient EXCEPT !.exists = TRUE, !.session = session,
                     !.owns = (session = NoSession), !.is_open = FALSE]

get_session(h, c) ==
    IF h.clients[c].session = NoSession
    THEN [h EXCEPT !.clients[c].session = h.nextSession,
                   !.clients[c].owns = TRUE,
                   !.nextSession = @ + 1]
    ELSE h

ClientBase_open(h, c) ==
    Return(Emit([h EXCEPT !.clients[c].is_open = TRUE],
                Event("opened", c, "", "", h.clients[c].session, "ok", None)), None)

\* the release and the clearing of is_open, given whether the session is released
release_and_clear(h, c, env, release) ==
    LET session == h.clients[c].session
        h0 == Emit(h, Event("teardown", c, "", "", session, "ok", None))
        h1 == [h0 EXCEPT !.clients[c].session = NoSession, !.closes[session] = @ + 1]
        h2 == Emit(h1, Event("aclose", c, "", "", session,
                             IF env.aclose_fails THEN "error" ELSE "ok", None))
        h3 == IF release THEN h2 ELSE h0
    IN  IF release /\ env.aclose_fails THEN Raise(h2, "CloseError")
        ELSE Return(Emit([h3 EXCEPT !.clients[c].is_open = FALSE],
                         Event("closed", c, "", "", session, "ok", None)), None)

\* close() releasing the session whoever owns it
ClientBase_close_unguarded(h, c, env) ==
    release_and_clear(h, c, env, h.clients[c].session # NoSession)

\* session = self.session; if owned: self.session = None, await session.aclose();
\* then self.is_open = False (not reached when aclose() raises)
ClientBase_close(h, c, env) ==
    release_and_clear(h, c, env, h.clients[c].session # NoSession /\ h.clients[c].owns)

\* session.get / session.post followed by resp.raise_for_status(): the k-th
\* request of the call meets env.net[k]; "transport" is raised by the send,
\* "status" by raise_for_status, both are httpx.HTTPError.
Send(h, c, verb, path, data, env) ==
    LET out == env.net[Len(Requests(h.log)) + 1]
        h1  == Emit(h, Event("request", c, verb, path, h.clients[c].session, out, data))
    IN  IF out = "ok" THEN Return(h1, None) ELSE Raise(h1, "HTTPError")

\* ----------------------------------------------------------------- device
\* The environment: what the device answers on each endpoint the clients use.
SourceNames == {"CAM-A", "CAM-B", "CAM-C"}
NoSource    == "none"

\* the names the device uses on the wire and in its pages
OperationModes == {"encode", "decode"}
VideoOutputs   == {"sdi", "hdmi"}
AudioOutputs   == {"DecodeMain", "DecodeComms", "DecodeLoop"}

\* a number as the device writes it: decimal text
Text(n) == <<"text", n>>

AudioWire ==
    [AnalogAudioInGain |-> Text(50), AnalogAudioOutGain |-> Text(75),
     AnalogAudiooutputselect |-> "DecodeMain"]

AddressOf(name) == <<"addr", name>>

\* a JSON object: its keys in document order and the value of each key
Dict(keys, at) == [keys |-> keys, at |-> at]

SourceMap(dev) == Dict(dev.sources, [n \in SourceNames |-> AddressOf(n)])

\* the body of a successful response: bytes that are a JSON document or not
JsonBody(obj) == [is_json |-> TRUE,  doc |-> obj]
RawBody(text) == [is_json |-> FALSE, doc |-> text]

VideosetPage(dev, fault) ==
    [encode |-> dev.mode = "encode" /\ fault # "no_mode",
     decode |-> dev.mode = "decode" /\ fault # "no_mode",
     sdi    |-> dev.vout = "sdi"    /\ fault # "no_vout",
     hdmi   |-> dev.vout = "hdmi"   /\ fault # "no_vout"]

Response(dev, verb, path, env) ==
    CASE verb = "GET"  /\ path = "hostname"         -> RawBody("birddog-host")
      [] verb = "GET"  /\ path = "operationmode"    ->
            CASE env.opmode_shape = "raw"  -> RawBody(dev.mode)
              [] env.opmode_shape = "json" -> JsonBody([mode |-> dev.mode])
              [] OTHER                     -> JsonBody([other |-> "x"])
      [] verb = "GET"  /\ path = "analogaudiosetup" -> JsonBody(dev.audio)
      [] verb = "GET"  /\ path = "List"             -> JsonBody(SourceMap(dev))
      [] verb = "GET"  /\ path = "connectTo"        -> JsonBody([sourceName |-> dev.current])
      [] verb = "POST" /\ path = "connectTo"        ->
            IF env.ack = "json" THEN JsonBody([result |-> "success"])
                                ELSE RawBody(env.ack)
      [] verb = "GET"  /\ path = "videoset"         -> RawBody(VideosetPage(dev, env.page_fault))
      [] OTHER                                      -> RawBody("")

\* a device that stores the settings form posted to 'videoset': each field
\* of the form replaces what the device reports for it, numbers arriving as
\* form-encoded text
DeviceApply(dev, verb, path, data) ==
    IF dev.stores /\ verb = "POST" /\ path = "videoset" /\ data # <<>>
    THEN LET form == data[1]
             has(k) == k \in DOMAIN form
         IN  [dev EXCEPT
                !.mode = IF has("mode") THEN form.mode ELSE @,
                !.vout = IF has("vid12g_loop_if") THEN form.vid12g_loop_if ELSE @,
                !.audio.AnalogAudioInGain =
                    IF has("AnalogAudioInGain") THEN Text(form.AnalogAudioInGain) ELSE @,
                !.audio.AnalogAudioOutGain =
                    IF has("AnalogAudioOutGain") THEN Text(form.AnalogAudioOutGain) ELSE @,
                !.audio.AnalogAudiooutputselect =
                    IF has("AnalogAudiooutputselect") THEN form.AnalogAudiooutputselect ELSE @]
    ELSE dev

\* the request on the client's session and, when it is answered, the body
Exchange(h, c, verb, path, data, env) ==
    Try(Send(h, c, verb, path, data, env),
        LAMBDA r : Return([r.h EXCEPT !.device = DeviceApply(@, verb, path, data)],
                          Response(r.h.device, verb, path, env)))

\* ----------------------------------------------------------------- models
NdiSource(name, address, index, is_current) ==
    [name |-> name, address |-> address, index |-> index, is_current |-> is_current]

\* a member of an enum class; getattr(cls, name) gives it, member.name its name
Member(cls, name) == <<cls, name>>
name_of(member)   == member[2]

\* int(x) of decimal text
int(x) == x[2]

AudioOutputSetup_from_api(data) ==
    [input_gain    |-> int(data.AnalogAudioInGain),
     output_gain   |-> int(data.AnalogAudioOutGain),
     output_select |-> Member("AudioOutput", data.AnalogAudiooutputselect)]

DeviceSettings(operation_mode, video_output, audio_setup) ==
    [operation_mode |-> operation_mode, video_output |-> video_output,
     audio_setup |-> audio_setup]

\* the form with the audio fields at the device's factory values
to_form_data_default_audio(settings) ==
    [mode |-> name_of(settings.operation_mode),
     vid12g_loop_if |-> name_of(settings.video_output),
     AnalogAudioInGain |-> 50,
     AnalogAudioOutGain |-> 75,
     AnalogAudiooutputselect |-> "DecodeMain"]

to_form_data(settings) ==
    [mode |-> name_of(settings.operation_mode),
     vid12g_loop_if |-> name_of(settings.video_output),
     AnalogAudioInGain |-> settings.audio_setup.input_gain,
     AnalogAudioOutGain |-> settings.audio_setup.output_gain,
     AnalogAudiooutputselect |-> name_of(settings.audio_setup.output_select)]

\* -------------------------------------------------------------- ApiClient
ApiClient_init(session) == [ClientBase_init(session) EXCEPT !.auth_client = FALSE]

\* json.loads(content), falling back to the raw bytes
json_or_bytes(body) ==
    IF body.is_json THEN [type |-> "dict", v |-> body.doc]
                    ELSE [type |-> "bytes", v |-> body.doc]

ApiClient_get(h, api_method, env) ==
    Try(Exchange(get_session(h, "api"), "api", "GET", api_method, None, env),
        LAMBDA r : Return(r.h, json_or_bytes(r.val)))

ApiClient_post(h, api_method, data, env) ==
    Try(Exchange(get_session(h, "api"), "api", "POST", api_method, <<data>>, env),
        LAMBDA r : Return(r.h, json_or_bytes(r.val)))

ApiClient_get_hostname(h, env) ==
    Try(ApiClient_get(h, "hostname", env), LAMBDA r : Return(r.h, r.val.v))

\* reboot() letting the error of its trigger request through
ApiClient_reboot_propagating(h, env) ==
    Try(ApiClient_get_hostname(h, env),
        LAMBDA r1 : Try(ApiClient_get(r1.h, "reboot", env),
                        LAMBDA r2 : Return(r2.h, None)))

\* get_hostname(), then get('reboot') with httpx.HTTPError swallowed
ApiClient_reboot(h, env) ==
    Try(ApiClient_get_hostname(h, env),
        LAMBDA r1 : Await(ApiClient_get(r1.h, "reboot", env),
                          LAMBDA r2 : IF r2.exc = "HTTPError" THEN Return(r2.h, None)
                                      ELSE IF Raised(r2) THEN r2
                                      ELSE Return(r2.h, None)))

\* restart() without the hostname request
ApiClient_restart_unconfirmed(h, env) ==
    Try(ApiClient_get(h, "restart", env), LAMBDA r2 : Return(r2.h, None))

\* get_hostname(), then get('restart') with httpx.HTTPError re-raised
ApiClient_restart(h, env) ==
    Try(ApiClient_get_hostname(h, env),
        LAMBDA r1 : Await(ApiClient_get(r1.h, "restart", env),
                          LAMBDA r2 : IF r2.exc = "HTTPError" THEN Raise(r2.h, "HTTPError")
                                      ELSE IF Raised(r2) THEN r2
                                      ELSE Return(r2.h, None)))

\* get_operation_mode() taking encode for an answer without 'mode'
ApiClient_get_operation_mode_defaulting(h, env) ==
    Try(ApiClient_get(h, "operationmode", env),
        LAMBDA r : IF r.val.type = "dict"
                   THEN IF "mode" \in DOMAIN r.val.v
                        THEN Return(r.h, Member("OperationMode", r.val.v.mode))
                        ELSE Return(r.h, Member("OperationMode", "encode"))
                   ELSE Return(r.h, Member("OperationMode", r.val.v)))

ApiClient_get_operation_mode(h, env) ==
    Try(ApiClient_get(h, "operationmode", env),
        LAMBDA r : IF r.val.type = "dict"
                   THEN IF "mode" \in DOMAIN r.val.v
                        THEN Return(r.h, Member("OperationMode", r.val.v.mode))
                        ELSE Raise(r.h, "KeyError")
                   ELSE Return(r.h, Member("OperationMode", r.val.v)))

ApiClient_get_audio_setup(h, env) ==
    Try(ApiClient_get(h, "analogaudiosetup", env),
        LAMBDA r : Return(r.h, AudioOutputSetup_from_api(r.val.v)))

ApiClient_get_source(h, env) ==
    Try(ApiClient_get(h, "connectTo", env),
        LAMBDA r : Return(r.h, NdiSource(r.val.v.sourceName, None, None, FALSE)))

\* the listing with the entries numbered from one
list_entries_from_one(content, current_name) ==
    [i \in 1 .. Len(content.keys) |->
        NdiSource(content.keys[i], content.at[content.keys[i]], i,
                  content.keys[i] = current_name)]

\* for i, key in enumerate(content.keys()): one NdiSource per key, in key order
list_entries(content, current_name) ==
    [i \in 1 .. Len(content.keys) |->
        NdiSource(content.keys[i], content.at[content.keys[i]], i - 1,
                  content.keys[i] = current_name)]

ApiClient_list_sources(h, env) ==
    Try(ApiClient_get_source(h, env),
        LAMBDA r1 : Try(ApiClient_get(r1.h, "List", env),
                        LAMBDA r2 : Return(r2.h, list_entries(r2.val.v, r1.val.name))))

\* the lookup done on the list itself: source_iter[source_index], where a
\* negative index counts from the end
lookup_index_in_list(source_iter, source_index) ==
    LET n == Len(source_iter)
        j == IF source_index < 0 THEN n + source_index + 1 ELSE source_index + 1
    IN  IF j \in 1 .. n THEN <<source_iter[j]>> ELSE <<>>

\* sources = {src.index: src for src in source_iter}; sources[source_index]
lookup_index(source_iter, source_index) ==
    LET hits == {j \in 1 .. Len(source_iter) : source_iter[j].index = source_index}
    IN  IF hits = {} THEN <<>>
        ELSE <<source_iter[CHOOSE j \in hits : \A k \in hits : k <= j]>>

\* if isinstance(source, int): the entry of list_sources() with that index
resolve_source(h, source, env) ==
    IF source.type = "int"
    THEN Try(ApiClient_list_sources(h, env),
             LAMBDA rl : Await(Return(rl.h, lookup_index(rl.val, source.v)),
                               LAMBDA f : IF f.val = <<>> THEN Raise(f.h, "KeyError")
                                          ELSE Return(f.h, [type |-> "NdiSource",
                                                            v |-> f.val[1]])))
    ELSE Return(h, source)

\* set_source() without the check of the acknowledgement
ApiClient_set_source_unchecked(h, source, env) ==
    Try(resolve_source(h, source, env),
        LAMBDA r1 :
            Try(ApiClient_post(r1.h, "connectTo",
                               [sourceName |-> IF r1.val.type = "NdiSource"
                                               THEN r1.val.v.name ELSE r1.val.v], env),
                LAMBDA r2 : Return(r2.h, None)))

\* source is [type |-> "int", v |-> i], [type |-> "str", v |-> name]
\* or [type |-> "NdiSource", v |-> an NdiSource]
ApiClient_set_source(h, source, env) ==
    Try(resolve_source(h, source, env),
        LAMBDA r1 :
            Try(ApiClient_post(r1.h, "connectTo",
                               [sourceName |-> IF r1.val.type = "NdiSource"
                                               THEN r1.val.v.name ELSE r1.val.v], env),
                LAMBDA r2 : IF r2.val.type = "bytes" /\ r2.val.v = "success"
                            THEN Return(r2.h, None)
                            ELSE Raise(r2.h, "AssertionError")))

\* ------------------------------------------------------------- AuthClient
AuthClient_init(session, api_client) ==
    [ClientBase_init(session) EXCEPT !.api_client = api_client,
                                     !.settings = None, !.logged_in = FALSE]

\* get() without its assertion
AuthClient_get_unchecked(h, a, path, env) ==
    Try(Exchange(get_session(h, a), a, "GET", path, None, env),
        LAMBDA r : Return(r.h, r.val.doc))

\* assert self._logged_in, then the request on the client's session
AuthClient_get(h, a, path, env) ==
    IF ~h.clients[a].logged_in THEN Raise(h, "AssertionError")
    ELSE Try(Exchange(get_session(h, a), a, "GET", path, None, env),
             LAMBDA r : Return(r.h, r.val.doc))

AuthClient_post(h, a, path, data, env) ==
    IF ~h.clients[a].logged_in THEN Raise(h, "AssertionError")
    ELSE Try(Exchange(get_session(h, a), a, "POST", path, data, env),
             LAMBDA r : Return(r.h, r.val.doc))

AuthClient_logout(h, a, env) ==
    Try(Exchange(get_session(h, a), a, "POST", "logout", None, env),
        LAMBDA r : Return([r.h EXCEPT !.clients[a].logged_in = FALSE], None))

AuthClient_login(h, a, env) ==
    Try(Exchange(get_session(h, a), a, "POST", "login",
                 <<[auth_password |-> "birddog"]>>, env),
        LAMBDA r : Return([r.h EXCEPT !.clients[a].logged_in = TRUE,
                                      !.logins = @ \cup {a}], None))

AuthClient_open(h, a, env) ==
    Try(ClientBase_open(h, a), LAMBDA r : AuthClient_login(r.h, a, env))

\* try: if self._logged_in: await self._logout()  finally: await super().close()
AuthClient_close(h, a, env) ==
    Finally(IF h.clients[a].logged_in THEN AuthClient_logout(h, a, env)
            ELSE Return(h, None),
            LAMBDA hf : ClientBase_close(hf, a, env))

\* ------------------------------------------------ ApiClient open and close
\* self.auth_client = AuthClient(host_url=..., session=self.session, api_client=self)
attach_auth_client(h) ==
    [h EXCEPT !.clients["comp"] = AuthClient_init(h.clients["api"].session, TRUE),
              !.clients["api"].auth_client = TRUE,
              !.logins = @ \ {"comp"}]

\* open() that also opens the companion it attaches
ApiClient_open_eager(h, env) ==
    IF ~h.clients["api"].auth_client
    THEN Try(AuthClient_open(attach_auth_client(IF h.clients["api"].session = NoSession
                                                THEN get_session(h, "api") ELSE h),
                             "comp", env),
             LAMBDA r : ClientBase_open(r.h, "api"))
    ELSE ClientBase_open(h, "api")

ApiClient_open(h, env) ==
    ClientBase_open(
        IF ~h.clients["api"].auth_client
        THEN attach_auth_client(IF h.clients["api"].session = NoSession
                                THEN get_session(h, "api") ELSE h)
        ELSE h,
        "api")

\* the companion closed without the test that there is one: c.is_open on None
detach_and_close_companion_unchecked(h, env) ==
    IF h.clients["api"].auth_client
    THEN IF h.clients["comp"].is_open
         THEN AuthClient_close([h EXCEPT !.clients["api"].auth_client = FALSE], "comp", env)
         ELSE Return([h EXCEPT !.clients["api"].auth_client = FALSE], None)
    ELSE Raise(h, "AttributeError")

\* c = self.auth_client; if c is not None: self.auth_client = None,
\* and if c.is_open: await c.close()
detach_and_close_companion(h, env) ==
    IF h.clients["api"].auth_client
    THEN IF h.clients["comp"].is_open
         THEN AuthClient_close([h EXCEPT !.clients["api"].auth_client = FALSE], "comp", env)
         ELSE Return([h EXCEPT !.clients["api"].auth_client = FALSE], None)
    ELSE Return(h, None)

\* close() tearing down its own session before it closes the companion
ApiClient_close_teardown_first(h, env) ==
    Finally(ClientBase_close(h, "api", env),
            LAMBDA hf : detach_and_close_companion(hf, env))

\* try: detach the companion and close it if open  finally: await super().close()
ApiClient_close(h, env) ==
    Finally(detach_and_close_companion(h, env),
            LAMBDA hf : ClientBase_close(hf, "api", env))

\* ------------------------------------------------- AuthClient operations
\* the last checked input of the group wins; None when no input is checked
checked_of(page, first, second) ==
    IF page[second] THEN <<second>> ELSE IF page[first] THEN <<first>> ELSE None

\* the audio setup fetched by a client that is opened and never closed
short_lived_audio_setup_unclosed(h, a, env) ==
    Await(ApiClient_open([h EXCEPT !.clients["api"] = ApiClient_init(h.clients[a].session),
                                   !.clients["comp"] = NoClient], env),
          LAMBDA r0 : ApiClient_get_audio_setup(r0.h, env))

\* async with ApiClient(self.host_url, self.session) as client: get_audio_setup()
short_lived_audio_setup(h, a, env) ==
    Await(ApiClient_open([h EXCEPT !.clients["api"] = ApiClient_init(h.clients[a].session),
                                   !.clients["comp"] = NoClient], env),
          LAMBDA r0 : Finally(ApiClient_get_audio_setup(r0.h, env),
                              LAMBDA hf : ApiClient_close(hf, env)))

\* self.settings = DeviceSettings(...); return self.settings
cache_settings(h, a, op_mode, vout, env) ==
    Try(IF h.clients[a].api_client THEN ApiClient_get_audio_setup(h, env)
        ELSE short_lived_audio_setup(h, a, env),
        LAMBDA ra : Return([ra.h EXCEPT !.clients[a].settings =
                                            <<DeviceSettings(op_mode, vout, ra.val)>>],
                           DeviceSettings(op_mode, vout, ra.val)))

\* get_settings() taking encode / sdi when the page shows no checked input
AuthClient_get_settings_defaulting(h, a, env) ==
    Try(AuthClient_get(h, a, "videoset", env),
        LAMBDA r : cache_settings(
                       r.h, a,
                       Member("OperationMode",
                              IF checked_of(r.val, "encode", "decode") = None THEN "encode"
                              ELSE checked_of(r.val, "encode", "decode")[1]),
                       Member("VideoOutput",
                              IF checked_of(r.val, "sdi", "hdmi") = None THEN "sdi"
                              ELSE checked_of(r.val, "sdi", "hdmi")[1]), env))

AuthClient_get_settings(h, a, env) ==
    Try(AuthClient_get(h, a, "videoset", env),
        LAMBDA r : IF checked_of(r.val, "encode", "decode") = None
                      \/ checked_of(r.val, "sdi", "hdmi") = None
                   THEN Raise(r.h, "AssertionError")
                   ELSE cache_settings(
                            r.h, a,
                            Member("OperationMode", checked_of(r.val, "encode", "decode")[1]),
                            Member("VideoOutput", checked_of(r.val, "sdi", "hdmi")[1]), env))

\* settings is the cached object itself: assigning its field changes the cache
AuthClient_set_operation_mode(h, a, mode, env) ==
    Try(AuthClient_get_settings(h, a, env),
        LAMBDA r :
            Try(AuthClient_post(
                    [r.h EXCEPT !.clients[a].settings =
                                    <<[r.val EXCEPT !.operation_mode = mode]>>],
                    a, "videoset",
                    <<to_form_data([r.val EXCEPT !.operation_mode = mode])>>, env),
                LAMBDA rp : Return(rp.h, None)))

AuthClient_set_video_output(h, a, video_output, env) ==
    Try(AuthClient_get_settings(h, a, env),
        LAMBDA r :
            Try(AuthClient_post(
                    [r.h EXCEPT !.clients[a].settings =
                                    <<[r.val EXCEPT !.video_output = video_output]>>],
                    a, "videoset",
                    <<to_form_data([r.val EXCEPT !.video_output = video_output])>>, env),
                LAMBDA rp : Return(rp.h, None)))

AuthClient_refresh_sources(h, a, env) ==
    Try(AuthClient_post(h, a, "videoset",
                        <<[add_new_sources |-> "new_sources"]>>, env),
        LAMBDA rp : Return(rp.h, None))

\* m = getattr(client, method_name); await m(*args)
AuthClient_call(h, a, method_name, args, env) ==
    CASE method_name = "get_settings"       -> AuthClient_get_settings(h, a, env)
      [] method_name = "set_operation_mode" -> AuthClient_set_operation_mode(h, a, args, env)
      [] method_name = "set_video_output"   -> AuthClient_set_video_output(h, a, args, env)
      [] method_name = "refresh_sources"    -> AuthClient_refresh_sources(h, a, env)

\* ------------------------------------------------------ proxied operations
\* client = self.auth_client; client.is_open on None is an AttributeError
proxy_through_auth_client(h, method_name, args, env) ==
    IF ~h.clients["api"].auth_client THEN Raise(h, "AttributeError")
    ELSE Try(IF ~h.clients["comp"].is_open
             THEN AuthClient_open(h, "comp", env) ELSE Return(h, None),
             LAMBDA r : AuthClient_call(
                            Emit(r.h, Event("delegate", "comp", "", method_name,
                                            r.h.clients["comp"].session, "ok", None)),
                            "comp", method_name, args, env))

ApiClient_get_settings(h, env) == proxy_through_auth_client(h, "get_settings", None, env)

ApiClient_get_video_output(h, env) ==
    Try(ApiClient_get_settings(h, env), LAMBDA r : Return(r.h, r.val.video_output))

\* called with the name of the output:
\* if isinstance(video_output, str): video_output = getattr(models.VideoOutput, video_output)
ApiClient_set_video_output(h, video_output, env) ==
    proxy_through_auth_client(h, "set_video_output",
                              Member("VideoOutput", video_output), env)

\* called with the name of the mode:
\* if isinstance(mode, str): mode = getattr(models.OperationMode, mode)
ApiClient_set_operation_mode(h, mode, env) ==
    proxy_through_auth_client(h, "set_operation_mode",
                              Member("OperationMode", mode), env)

ApiClient_refresh_sources(h, env) ==
    proxy_through_auth_client(h, "refresh_sources", None, env)

\* ------------------------------------------------------------ environment
Outcomes == {"ok", "status", "transport"}

\* the outcomes of the call's requests, in order, and the other things the
\* environment decides during one call
Env(net, aclose_fails, ack, opmode_shape, page_fault) ==
    [net |-> net, aclose_fails |-> aclose_fails, ack |-> ack,
     opmode_shape |-> opmode_shape, page_fault |-> page_fault]

\* the outcomes of the requests of a call that sends up to n of them: all
\* answered, or one of them failing (no call sends a request after a failed
\* one, see NoRequestAfterFailure, so one failure per call covers every run)
Net(n) ==
    {[k \in 1 .. n |-> "ok"]}
    \cup {[k \in 1 .. n |-> IF k = f THEN o ELSE "ok"] :
             f \in 1 .. n, o \in Outcomes \ {"ok"}}

Quiet(net) == Env(net, FALSE, "success", "raw", "none")

AllOk == Quiet([k \in 1 .. 4 |-> "ok"])

\* --------------------------------------------------------------- actions
\* the heap as the call finds it
Start ==
    [clients |-> clients, closes |-> closes, nextSession |-> nextSession,
     logins |-> logins, device |-> device, log |-> <<>>]

\* the call's effects; a call that would need more sessions than the run
\* allows is not taken
Finish(name, a, x) ==
    \E r \in {x} :
    /\ r.h.nextSession <= MaxSessions + 2
    /\ clients' = r.h.clients
    /\ closes' = r.h.closes
    /\ nextSession' = r.h.nextSession
    /\ logins' = r.h.logins
    /\ device' = r.h.device
    /\ log' = r.h.log
    /\ op' = name
    /\ arg' = a
    /\ exc' = r.exc
    /\ ret' = r.val

Open ==
    Finish("open", None, ApiClient_open(Start, AllOk))

Close ==
    \E net \in Net(1), f \in BOOLEAN :
        Finish("close", None, ApiClient_close(Start, Env(net, f, "success", "raw", "none")))

GetHostname ==
    \E net \in Net(1) : Finish("get_hostname", None, ApiClient_get_hostname(Start, Quiet(net)))

Reboot ==
    \E net \in Net(2) : Finish("reboot", None, ApiClient_reboot(Start, Quiet(net)))

Restart ==
    \E net \in Net(2) : Finish("restart", None, ApiClient_restart(Start, Quiet(net)))

GetOperationMode ==
    \E net \in Net(1), shape \in {"raw", "json", "json_without_mode"} :
        Finish("get_operation_mode", shape,
               ApiClient_get_operation_mode(Start, Env(net, FALSE, "success", shape, "none")))

GetAudioSetup ==
    \E net \in Net(1) :
        Finish("get_audio_setup", None, ApiClient_get_audio_setup(Start, Quiet(net)))

GetSource ==
    \E net \in Net(1) : Finish("get_source", None, ApiClient_get_source(Start, Quiet(net)))

ListSources ==
    \E net \in Net(2) : Finish("list_sources", None, ApiClient_list_sources(Start, Quiet(net)))

SourceArgs ==
    [type : {"int"}, v : (0 - 1) .. (MaxSources + 1)]
    \cup [type : {"str"}, v : SourceNames]
    \cup [type : {"NdiSource"},
          v : {NdiSource(n, None, None, FALSE) : n \in SourceNames}]

\* what the device answers to the POST: the acknowledgement, other text, or
\* a JSON document
Acks == {"success", "failed", "json"}

SetSource ==
    \E source \in SourceArgs, net \in Net(3), ack \in Acks :
        Finish("set_source", [type |-> source.type, v |-> source.v, ack |-> ack],
               ApiClient_set_source(Start, source, Env(net, FALSE, ack, "raw", "none")))

PageFaults == {"none", "no_mode", "no_vout"}

GetSettings ==
    \E net \in Net(3), fault \in PageFaults :
        Finish("get_settings", None,
               ApiClient_get_settings(Start, Env(net, FALSE, "success", "raw", fault)))

GetVideoOutput ==
    \E net \in Net(3), fault \in PageFaults :
        Finish("get_video_output", None,
               ApiClient_get_video_output(Start, Env(net, FALSE, "success", "raw", fault)))

SetVideoOutput ==
    \E v \in VideoOutputs, net \in Net(4), fault \in PageFaults :
        Finish("set_video_output", v,
               ApiClient_set_video_output(Start, v, Env(net, FALSE, "success", "raw", fault)))

SetOperationMode ==
    \E m \in OperationModes, net \in Net(4), fault \in PageFaults :
        Finish("set_operation_mode", m,
               ApiClient_set_operation_mode(Start, m, Env(net, FALSE, "success", "raw", fault)))

RefreshSources ==
    \E net \in Net(2) :
        Finish("refresh_sources", None, ApiClient_refresh_sources(Start, Quiet(net)))

\* ------------------------------------------------- the unified client
InitCommon ==
    /\ closes = [s \in Sessions |-> 0]
    /\ nextSession = CallerSession + 1
    /\ logins = {}
    /\ log = <<>>
    /\ op = "init"
    /\ arg = None
    /\ exc = "none"
    /\ ret = None

\* a device that answers the same whatever is posted to it
Device(sources, current, mode, vout) ==
    [sources |-> sources, current |-> current, mode |-> mode, vout |-> vout,
     audio |-> AudioWire, stores |-> FALSE]

\* client = ApiClient(url) or ApiClient(url, session)
Init ==
    /\ InitCommon
    /\ \E session \in {NoSession, CallerSession} :
          clients = [c \in ClientIds |->
                        IF c = "api" THEN ApiClient_init(session) ELSE NoClient]
    /\ device = Device(<<"CAM-A", "CAM-B">>, "CAM-A", "encode", "sdi")

Next ==
    \/ Open
    \/ Close
    \/ GetHostname
    \/ Reboot
    \/ Restart
    \/ GetOperationMode
    \/ GetAudioSetup
    \/ GetSource
    \/ ListSources
    \/ SetSource
    \/ GetSettings
    \/ GetVideoOutput
    \/ SetVideoOutput
    \/ SetOperationMode
    \/ RefreshSources

Spec == Init /\ [][Next]_vars

\* ------------------------------------------- the stand-alone web backend
WebOpen ==
    \E net \in Net(1) : Finish("web.open", None, AuthClient_open(Start, "web", Quiet(net)))

WebClose ==
    \E net \in Net(1), f \in BOOLEAN :
        Finish("web.close", None,
               AuthClient_close(Start, "web", Env(net, f, "success", "raw", "none")))

WebGet ==
    \E net \in Net(1) :
        Finish("web.get", "videoset", AuthClient_get(Start, "web", "videoset", Quiet(net)))

WebPost ==
    \E net \in Net(1) :
        Finish("web.post", "videoset",
               AuthClient_post(Start, "web", "videoset", <<>>, Quiet(net)))

WebGetSettings ==
    \E net \in Net(2), fault \in PageFaults :
        Finish("web.get_settings", fault,
               AuthClient_get_settings(Start, "web", Env(net, FALSE, "success", "raw", fault)))

WebSetOperationMode ==
    \E m \in OperationModes, net \in Net(3), fault \in PageFaults :
        Finish("web.set_operation_mode", m,
               AuthClient_set_operation_mode(Start, "web", Member("OperationMode", m),
                                             Env(net, FALSE, "success", "raw", fault)))

WebSetVideoOutput ==
    \E v \in VideoOutputs, net \in Net(3), fault \in PageFaults :
        Finish("web.set_video_output", v,
               AuthClient_set_video_output(Start, "web", Member("VideoOutput", v),
                                           Env(net, FALSE, "success", "raw", fault)))

WebRefreshSources ==
    \E net \in Net(1) :
        Finish("web.refresh_sources", None, AuthClient_refresh_sources(Start, "web", Quiet(net)))

\* client = AuthClient(url) or AuthClient(url, session)
InitWeb ==
    /\ InitCommon
    /\ \E session \in {NoSession, CallerSession} :
          clients = [c \in ClientIds |->
                        IF c = "web" THEN AuthClient_init(session, FALSE) ELSE NoClient]
    /\ \E m \in OperationModes, v \in VideoOutputs :
          device = Device(<<"CAM-A", "CAM-B">>, "CAM-A", m, v)

NextWeb ==
    \/ WebOpen
    \/ WebClose
    \/ WebGet
    \/ WebPost
    \/ WebGetSettings
    \/ WebSetOperationMode
    \/ WebSetVideoOutput
    \/ WebRefreshSources

SpecWeb == InitWeb /\ [][NextWeb]_vars

\* --------------------- the web backend, with or without a REST backend
\* web = AuthClient(url, session), or
\* api = ApiClient(url, session); web = AuthClient(url, session, api_client=api)
InitSettings ==
    /\ InitCommon
    /\ \E session \in {NoSession, CallerSession}, attached \in BOOLEAN :
          clients = [c \in ClientIds |->
                        CASE c = "web" -> AuthClient_init(session, attached)
                          [] c = "api" /\ attached -> ApiClient_init(session)
                          [] OTHER -> NoClient]
    /\ \E m \in OperationModes, v \in VideoOutputs :
          device = Device(<<"CAM-A", "CAM-B">>, "CAM-A", m, v)

SpecSettings == InitSettings /\ [][NextWeb]_vars

\* ---------------------------------------- source listing and selection
\* the source maps a device may report: up to MaxSources distinct keys, in any order
SourceLists ==
    UNION {{q \in [1 .. n -> SourceNames] : \A i, j \in 1 .. n : q[i] = q[j] => i = j} :
             n \in 0 .. MaxSources}

InitSources ==
    /\ InitCommon
    /\ clients = [c \in ClientIds |->
                     IF c = "api" THEN ApiClient_init(CallerSession) ELSE NoClient]
    /\ \E sources \in SourceLists, current \in SourceNames \cup {NoSource} :
          device = Device(sources, current, "decode", "sdi")

NextSources ==
    \/ GetSource
    \/ ListSources
    \/ SetSource

SpecSources == InitSources /\ [][NextSources]_vars

\* ------------------------------------- settings against a storing device
\* what the device may report for its analog audio
AudioSetups ==
    {AudioWire,
     [AnalogAudioInGain |-> Text(0), AnalogAudioOutGain |-> Text(100),
      AnalogAudiooutputselect |-> "DecodeLoop"]}

\* an ApiClient in front of a device that stores the settings form it receives
InitForms ==
    /\ InitCommon
    /\ \E session \in {NoSession, CallerSession} :
          clients = [c \in ClientIds |->
                        IF c = "api" THEN ApiClient_init(session) ELSE NoClient]
    /\ \E m \in OperationModes, v \in VideoOutputs, a \in AudioSetups :
          device = [Device(<<"CAM-A", "CAM-B">>, "CAM-A", m, v)
                       EXCEPT !.audio = a, !.stores = TRUE]

NextForms ==
    \/ Open
    \/ Close
    \/ GetOperationMode
    \/ GetSettings
    \/ SetVideoOutput
    \/ SetOperationMode

SpecForms == InitForms /\ [][NextForms]_vars

\* ------------------------------------------------------------- host_url
\* A string is the sequence of its pieces: the delimiters ":", "/", "?",
\* "[" and "]" one piece each, and words that contain no delimiter.
Delimiters == {":", "/", "?", "[", "]"}

Find(str, pieces) ==
    LET hits == {i \in 1 .. Len(str) : str[i] \in pieces}
    IN  IF hits = {} THEN 0 ELSE CHOOSE i \in hits : \A j \in hits : i <= j

\* sub in str
Contains(str, sub) ==
    \E i \in 1 .. (Len(str) - Len(sub) + 1) : SubSeq(str, i, i + Len(sub) - 1) = sub

\* raised by urlsplit for a netloc with one bracket and not the other
ValueError == <<"ValueError">>

Unbalanced(netloc) ==
    (Find(netloc, {"["}) = 0) # (Find(netloc, {"]"}) = 0)

\* urllib.parse.urlsplit: the scheme is what precedes the first ":" when
\* that is one word; the netloc follows "//" and ends before the first "/"
\* or "?"
urlsplit(url) ==
    LET i      == Find(url, {":"})
        scheme == IF i = 2 /\ url[1] \notin Delimiters THEN <<url[1]>> ELSE <<>>
        rest   == IF scheme # <<>> THEN SubSeq(url, 3, Len(url)) ELSE url
        tail   == SubSeq(rest, 3, Len(rest))
        d      == Find(tail, {"/", "?"})
    IN  IF Len(rest) >= 2 /\ SubSeq(rest, 1, 2) = <<"/", "/">>
        THEN [scheme |-> scheme,
              netloc |-> IF d = 0 THEN tail ELSE SubSeq(tail, 1, d - 1),
              path   |-> IF d = 0 THEN <<>> ELSE SubSeq(tail, d, Len(tail))]
        ELSE [scheme |-> scheme, netloc |-> <<>>, path |-> rest]

\* urllib.parse.urlunsplit([scheme, netloc, '', '', ''])
urlunsplit(scheme, netloc) ==
    (IF scheme # <<>> THEN scheme \o <<":">> ELSE <<>>)
    \o (IF netloc # <<>> \/ scheme # <<>> THEN <<"/", "/">> \o netloc ELSE <<>>)

\* netloc.split(':')[0] when ':' in netloc, netloc otherwise
before_colon(netloc) ==
    IF Find(netloc, {":"}) = 0 THEN netloc
    ELSE SubSeq(netloc, 1, Find(netloc, {":"}) - 1)

\* the host_url that ClientBase.__init__ stores
ClientBase_host_url(host_url) ==
    LET sp == urlsplit(IF Contains(host_url, <<"/", "/">>) THEN host_url
                       ELSE <<"http", ":", "/", "/">> \o host_url)
    IN  IF Unbalanced(sp.netloc) THEN ValueError
        ELSE urlunsplit(sp.scheme, sp.netloc)

\* the host_url that ApiClient.__init__ stores
ApiClient_host_url(host_url) ==
    LET sp == urlsplit(ClientBase_host_url(host_url))
    IN  IF ClientBase_host_url(host_url) = ValueError THEN ValueError
        ELSE urlunsplit(sp.scheme, before_colon(sp.netloc) \o <<":", "8080">>)

\* the host_url that AuthClient.__init__ stores
AuthClient_host_url(host_url) ==
    LET sp == urlsplit(ClientBase_host_url(host_url))
    IN  IF ClientBase_host_url(host_url) = ValueError THEN ValueError
        ELSE urlunsplit(sp.scheme, before_colon(sp.netloc))

\* the device base inputs: a host name, an IPv4 address or an IPv6 literal,
\* alone, with a port, or in a URL with an optional path and query
Hosts   == {<<"birddog-cam">>, <<"192.168.1.10">>, <<"[", "fe80", ":", ":", "1", "]">>}
Ports   == {<<>>, <<":", "80">>, <<":", "8080">>}
Schemes == {<<"http">>, <<"https">>}
Tails   == {<<>>, <<"/", "videoset">>, <<"/", "videoset", "?", "x=1">>}

\* an input with the parts it was written from
Written(scheme, host, port, tail) ==
    [scheme |-> scheme, host |-> host, port |-> port,
     text |-> (IF scheme # <<>> THEN scheme \o <<":", "/", "/">> ELSE <<>>)
              \o host \o port \o tail]

BaseInputs ==
    {Written(<<>>, h, p, <<>>) : h \in Hosts, p \in Ports}
    \cup {Written(sc, hp[1], hp[2], t) : sc \in Schemes, hp \in Hosts \X Ports, t \in Tails}

Constructors == {"ClientBase", "ApiClient", "AuthClient"}

host_url_of(class, text) ==
    CASE class = "ClientBase" -> ClientBase_host_url(text)
      [] class = "ApiClient"  -> ApiClient_host_url(text)
      [] class = "AuthClient" -> AuthClient_host_url(text)

Url(name, a, url) ==
    /\ op' = name
    /\ arg' = a
    /\ ret' = (IF url = ValueError THEN None ELSE url)
    /\ exc' = (IF url = ValueError THEN "ValueError" ELSE "none")
    /\ UNCHANGED <<clients, closes, nextSession, logins, device, log>>

\* ClientBase(host_url)
NewClientBase ==
    \E a \in BaseInputs : Url("ClientBase", a, ClientBase_host_url(a.text))

\* ApiClient(host_url)
NewApiClient ==
    \E a \in BaseInputs : Url("ApiClient", a, ApiClient_host_url(a.text))

\* AuthClient(host_url)
NewAuthClient ==
    \E a \in BaseInputs : Url("AuthClient", a, AuthClient_host_url(a.text))

\* a second client of the same class built on the host_url of the first
NewFromHostUrl ==
    /\ op \in Constructors
    /\ exc = "none"
    /\ Url(op, [arg EXCEPT !.text = ret], host_url_of(op, ret))

InitUrls ==
    /\ InitCommon
    /\ clients = [c \in ClientIds |-> NoClient]
    /\ device = Device(<<>>, NoSource, "encode", "sdi")

NextUrls ==
    \/ NewClientBase
    \/ NewApiClient
    \/ NewAuthClient
    \/ NewFromHostUrl

SpecUrls == InitUrls /\ [][NextUrls]_vars

\* ================================================================ properties
At(l, ev, who)     == {i \in 1 .. Len(l) : l[i].ev = ev /\ l[i].who = who}
RequestsTo(l, path) == {i \in 1 .. Len(l) : l[i].ev = "request" /\ l[i].path = path}
Failed(l)          == {i \in 1 .. Len(l) : l[i].ev = "request" /\ l[i].out # "ok"}
Acloses(l)         == {i \in 1 .. Len(l) : l[i].ev = "aclose"}

\* No call sends a request after one of its requests failed.
NoRequestAfterFailure ==
    \A i \in Failed(log) : \A j \in 1 .. Len(log) : log[j].ev = "request" => j <= i

CompanionLoggedIn ==
    /\ clients["api"].auth_client
    /\ clients["comp"].is_open
    /\ clients["comp"].logged_in

\* C1: when close() is called on an ApiClient whose companion is open and
\* logged in, a logout request is sent before any session is released and the
\* session the client created is released; when that logout request fails
\* the session is released all the same and both clients end up not open.
C1_CloseLogsOutThenReleases ==
    [][(op' = "close" /\ CompanionLoggedIn) =>
          /\ RequestsTo(log', "logout") # {}
          /\ \A i \in RequestsTo(log', "logout") : \A j \in Acloses(log') : i < j
          /\ (clients["api"].owns /\ clients["api"].session # NoSession) =>
                /\ \E j \in Acloses(log') : log'[j].sess = clients["api"].session
                /\ clients'["api"].session = NoSession
          /\ (RequestsTo(log', "logout") \cap Failed(log') # {}) =>
                /\ ~clients'["comp"].is_open
                /\ ~clients'["api"].is_open]_vars

Created(s) == s \in OwnSessions /\ s < nextSession

\* C2: the session supplied by the caller is never closed; a session the
\* client created is closed at most once, is not yet closed while the client
\* holds it, and has been closed exactly once when the client no longer holds
\* it, in particular after every close(), also one that raised.
C2_SessionsReleasedExactlyOnce ==
    /\ closes[CallerSession] = 0
    /\ \A s \in OwnSessions :
          /\ closes[s] <= 1
          /\ ~Created(s) => closes[s] = 0
          /\ Created(s) =>
                IF clients["api"].session = s THEN closes[s] = 0 ELSE closes[s] = 1
    /\ op = "close" => \A s \in OwnSessions : Created(s) => closes[s] = 1

\* a second own session has been released by a close() whose logout failed
C2_Witness ==
    /\ op = "close"
    /\ exc = "HTTPError"
    /\ \E s, t \in OwnSessions : s # t /\ closes[s] = 1 /\ closes[t] = 1

\* C3: ClientBase.close() leaves is_open false when it returns and when it
\* raises, also when releasing the session the client created fails.
C3_CloseAlwaysClearsOpen ==
    op = "close" => ~clients["api"].is_open

HelperRequests(l, who) ==
    {i \in 1 .. Len(l) : /\ l[i].ev = "request"
                         /\ l[i].who = who
                         /\ l[i].path \notin {"login", "logout"}}

\* C4: an AuthClient sends a request through get()/post() only if a login has
\* succeeded on it before; get() or post() called while it is not logged in
\* raises the assertion and sends nothing.
C4_NoHelperRequestBeforeLogin ==
    /\ HelperRequests(log, "web") # {} => "web" \in logins
    /\ (op \in {"web.get", "web.post"} /\ ~clients["web"].logged_in) =>
          /\ exc = "AssertionError"
          /\ log = <<>>

\* get() on an instance that open() left open after a failed login is rejected
C4_Witness ==
    /\ op = "web.get"
    /\ clients["web"].is_open
    /\ "web" \notin logins
    /\ exc = "AssertionError"

\* C5: between calls an AuthClient is never open without being logged in;
\* in particular an open() whose login failed leaves it not open.
C5_OpenImpliesLoggedIn ==
    clients["web"].is_open => clients["web"].logged_in

\* C6: the companion is open only while it is attached to an open ApiClient,
\* it is not open after ApiClient.close(), and in close() the companion has
\* been closed before the ApiClient's own teardown begins.
C6_CompanionNested ==
    /\ [](/\ clients["comp"].is_open =>
                clients["api"].auth_client /\ clients["api"].is_open
          /\ op = "close" =>
                /\ ~clients["comp"].is_open
                /\ ~clients["api"].auth_client
                /\ At(log, "teardown", "api") # {}
                /\ \A i \in 1 .. Len(log) : \A j \in At(log, "teardown", "api") :
                      log[i].who = "comp" => i < j)
    /\ [][(op' = "close" /\ clients["api"].auth_client /\ clients["comp"].is_open) =>
             \E i \in At(log', "closed", "comp") :
                \A j \in At(log', "teardown", "api") : i < j]_vars

\* a close() that closed an open companion and then released the session
C6_Witness ==
    /\ op = "close"
    /\ At(log, "closed", "comp") # {}
    /\ RequestsTo(log, "logout") # {}
    /\ Acloses(log) # {}

ProxiedOps ==
    {"get_settings", "get_video_output", "set_video_output",
     "set_operation_mode", "refresh_sources"}

\* C7: every proxied operation, in any client state, first ensures the
\* companion (creating it on the same session when there is none, opening and
\* logging it in when it is not open) and only then delegates: it never fails
\* for want of a companion, and unless the login request failed the call is
\* delegated to a companion that shares the client's session.
C7_ProxyEnsuresCompanion ==
    op \in ProxiedOps =>
        /\ exc # "AttributeError"
        /\ clients["api"].auth_client
        /\ clients["comp"].exists
        /\ clients["comp"].session = clients["api"].session
        /\ \/ At(log, "delegate", "comp") # {}
           \/ RequestsTo(log, "login") \cap Failed(log) # {}

\* C8: reboot() does not raise when its 'reboot' request failed; restart()
\* raises whenever its 'restart' request failed.
C8_RebootSuppressesRestartRaises ==
    /\ (op = "reboot" /\ RequestsTo(log, "reboot") \cap Failed(log) # {}) =>
          exc = "none"
    /\ (op = "restart" /\ RequestsTo(log, "restart") \cap Failed(log) # {}) =>
          exc = "HTTPError"

\* a reboot() whose trigger request failed
C8_Witness ==
    /\ op = "reboot"
    /\ RequestsTo(log, "reboot") \cap Failed(log) # {}

ConnectPosts(l) ==
    {i \in 1 .. Len(l) : l[i].ev = "request" /\ l[i].verb = "POST" /\ l[i].path = "connectTo"}

\* what list_sources() returns for the device as it is
Listing == ApiClient_list_sources(Start, AllOk).val

\* C9: set_source(i) with an integer i posts the name of the entry that
\* list_sources() returns at position i for the same device state, and
\* nothing else; when the listing has no entry i it raises the lookup error
\* and sends no POST to 'connectTo'.
C9_SetSourceByIndex ==
    (op = "set_source" /\ arg.type = "int") =>
        IF arg.v \in 0 .. (Len(Listing) - 1)
        THEN /\ \A i \in ConnectPosts(log) :
                   log[i].data[1].sourceName = Listing[arg.v + 1].name
             /\ (Failed(log) = {}) => Cardinality(ConnectPosts(log)) = 1
        ELSE /\ ConnectPosts(log) = {}
             /\ exc \in {"KeyError", "HTTPError"}
             /\ (Failed(log) = {}) => exc = "KeyError"

\* the second entry selected by index, and an index below zero rejected
C9_Witness ==
    /\ op = "set_source"
    /\ arg.type = "int"
    /\ \/ arg.v = 1 /\ exc = "none" /\ ConnectPosts(log) # {}
       \/ arg.v < 0 /\ exc = "KeyError" /\ Len(Listing) > 0

Range(q) == {q[i] : i \in 1 .. Len(q)}

\* C10: list_sources() returns one entry per key of the device's source map,
\* in key order, with index 0..n-1, and is_current set on exactly the entry
\* named like the current source: one entry when the current source is in
\* the map, none otherwise.
C10_ListSourcesIndexed ==
    (op = "list_sources" /\ exc = "none") =>
        /\ Len(ret) = Len(device.sources)
        /\ \A i \in 1 .. Len(ret) :
              /\ ret[i].name = device.sources[i]
              /\ ret[i].index = i - 1
              /\ ret[i].is_current = (device.sources[i] = device.current)
        /\ Cardinality({i \in 1 .. Len(ret) : ret[i].is_current}) =
              IF device.current \in Range(device.sources) THEN 1 ELSE 0

\* a listing of the largest map whose last entry is the current source
C10_Witness ==
    /\ op = "list_sources"
    /\ exc = "none"
    /\ Len(ret) = MaxSources
    /\ ret[MaxSources].is_current
    /\ ~ret[1].is_current

\* ---------------------------------------------------------------- C11
FiveFields ==
    {"mode", "vid12g_loop_if", "AnalogAudioInGain", "AnalogAudioOutGain",
     "AnalogAudiooutputselect"}

VideosetPosts(l) ==
    {i \in 1 .. Len(l) : l[i].ev = "request" /\ l[i].verb = "POST" /\ l[i].path = "videoset"}

\* the heap as the call leaves it
StartNext ==
    [clients |-> clients', closes |-> closes', nextSession |-> nextSession',
     logins |-> logins', device |-> device', log |-> <<>>]

\* what a get_settings() that meets no failure returns
Fresh(h) == ApiClient_get_settings(h, AllOk).val

\* C11: against a device that stores the form it receives, every form that
\* set_operation_mode / set_video_output post carries exactly the five
\* settings fields; when the call completes it has posted one form, and a
\* fresh get_settings() then returns what a get_settings() before the call
\* would have returned with the targeted field replaced by the requested
\* value and every other field as it was.
C11_FullFormRoundTrip ==
    [][op' \in {"set_operation_mode", "set_video_output"} =>
          /\ \A i \in VideosetPosts(log') :
                /\ log'[i].data # <<>>
                /\ DOMAIN log'[i].data[1] = FiveFields
          /\ exc' = "none" =>
                /\ Cardinality(VideosetPosts(log')) = 1
                /\ Fresh(StartNext) =
                      IF op' = "set_operation_mode"
                      THEN [Fresh(Start) EXCEPT
                               !.operation_mode = Member("OperationMode", arg')]
                      ELSE [Fresh(Start) EXCEPT
                               !.video_output = Member("VideoOutput", arg')]]_vars

\* the mode set to decode on a device whose other settings are not the
\* factory ones: the device now reports decode and still reports the rest
C11_Witness ==
    /\ op = "set_operation_mode"
    /\ exc = "none"
    /\ arg = "decode"
    /\ device.stores
    /\ device.mode = "decode"
    /\ device.vout = "hdmi"
    /\ device.audio # AudioWire
    /\ \E i \in VideosetPosts(log) : log[i].data[1].AnalogAudiooutputselect = "DecodeLoop"

\* ---------------------------------------------------------------- C12
\* C12: for a bare host, host:port or full URL, ClientBase stores
\* scheme://host[:port] (http for an input without scheme) without path and
\* query, ApiClient stores scheme://host:8080 and AuthClient scheme://host;
\* a client built on an already stored host_url stores the same host_url.
C12_HostUrlNormalised ==
    op \in Constructors =>
        LET scheme == IF arg.scheme = <<>> THEN <<"http">> ELSE arg.scheme
        IN  /\ exc = "none"
            /\ op = "ClientBase" => ret = scheme \o <<":", "/", "/">> \o arg.host \o arg.port
            /\ op = "ApiClient"  => ret = scheme \o <<":", "/", "/">> \o arg.host \o <<":", "8080">>
            /\ op = "AuthClient" => ret = scheme \o <<":", "/", "/">> \o arg.host
            /\ host_url_of(op, ret) = ret

\* ---------------------------------------------------------------- C13
\* C13: when its request is answered, get_operation_mode() returns the
\* OperationMode the device named, whether the answer is raw text or a JSON
\* object with the key 'mode'; for a JSON object without that key it raises
\* KeyError and returns nothing.
C13_OperationModeFromEitherShape ==
    (op = "get_operation_mode" /\ Failed(log) = {}) =>
        IF arg \in {"raw", "json"}
        THEN exc = "none" /\ ret = Member("OperationMode", device.mode)
        ELSE exc = "KeyError" /\ ret = None

\* decode read from a JSON answer, after the mode was set through the form
C13_Witness ==
    /\ op = "get_operation_mode"
    /\ arg = "json"
    /\ exc = "none"
    /\ ret = Member("OperationMode", "decode")

\* ---------------------------------------------------------------- C14
\* C14: a login request is sent only by a proxied operation that finds the
\* companion not open; open(), close() and the operations that are not
\* proxied never send one.  open() sends nothing: it attaches a companion on
\* the client's own session, not open and not logged in, when none is
\* attached, and leaves an attached companion as it is.
C14_LoginOnlyByProxiedOperation ==
    [][/\ RequestsTo(log', "login") # {} =>
             /\ op' \in ProxiedOps
             /\ ~clients["comp"].is_open
       /\ op' = "open" =>
             /\ Requests(log') = <<>>
             /\ clients'["api"].auth_client
             /\ clients'["comp"].exists
             /\ clients'["comp"].session = clients'["api"].session
             /\ clients'["comp"].session # NoSession
             /\ ~clients'["comp"].owns
             /\ IF clients["api"].auth_client
                THEN clients'["comp"] = clients["comp"]
                ELSE ~clients'["comp"].is_open /\ ~clients'["comp"].logged_in]_vars

\* an opened client that has selected a source: its companion is attached
\* on the same session, and was never opened or logged in
C14_Witness ==
    /\ op = "set_source"
    /\ exc = "none"
    /\ clients["api"].is_open
    /\ clients["api"].auth_client
    /\ clients["comp"].session = clients["api"].session
    /\ ~clients["comp"].is_open
    /\ "comp" \notin logins

\* ---------------------------------------------------------------- C15
\* C15: the first request of reboot() and of restart() is the GET of
\* 'hostname'; the trigger request ('reboot' / 'restart') is sent once, after
\* the hostname request was answered; when the hostname request fails the
\* call raises that error and sends no trigger request.
C15_HostnameBeforeTrigger ==
    op \in {"reboot", "restart"} =>
        /\ Len(log) >= 1
        /\ IsRequest(log[1]) /\ log[1].verb = "GET" /\ log[1].path = "hostname"
        /\ \A i \in RequestsTo(log, op) : i > 1 /\ log[1].out = "ok"
        /\ log[1].out = "ok" => Cardinality(RequestsTo(log, op)) = 1
        /\ log[1].out # "ok" =>
              /\ exc = "HTTPError"
              /\ RequestsTo(log, op) = {}
              /\ Len(log) = 1

\* a restart() that found the device unreachable
C15_Witness ==
    /\ op = "restart"
    /\ RequestsTo(log, "hostname") \cap Failed(log) # {}
    /\ exc = "HTTPError"
    /\ RequestsTo(log, "restart") = {}

\* ---------------------------------------------------------------- C16
\* C16: an AuthClient that is not open is not logged in: before open() and
\* after every close(), also a close() whose logout request failed, so that
\* get() and post() on a closed instance are rejected by the assertion.
C16_ClosedImpliesLoggedOut ==
    /\ ~clients["web"].is_open => ~clients["web"].logged_in
    /\ (op \in {"web.get", "web.post"} /\ ~clients["web"].is_open) =>
          exc = "AssertionError" /\ log = <<>>

\* ---------------------------------------------------------------- C17
\* the settings a get_settings() builds from what the device reports
Fetched(dev) ==
    DeviceSettings(Member("OperationMode", dev.mode), Member("VideoOutput", dev.vout),
                   AudioOutputSetup_from_api(dev.audio))

\* C17: the cached settings of an AuthClient, once set, are the settings its
\* last successful get_settings() fetched from the device (a device whose
\* settings do not change here); neither set_operation_mode / set_video_output,
\* whether their POST succeeds or fails, nor a failed get_settings() puts
\* any other value in the cache.
C17_CacheHoldsFetchedSettings ==
    clients["web"].settings # None => clients["web"].settings[1] = Fetched(device)

\* ---------------------------------------------------------------- C18
\* the request that failed is reboot's trigger request
RebootTriggerFailed ==
    op = "reboot" /\ Failed(log) \subseteq RequestsTo(log, "reboot")

\* C18: in one call no request is sent twice and none is sent after a
\* request that failed; a call in which a request failed raises that
\* request's error, reboot() whose trigger request failed excepted.
C18_NoRetry ==
    /\ \A i, j \in 1 .. Len(log) :
          (/\ IsRequest(log[i]) /\ IsRequest(log[j])
           /\ log[i].verb = log[j].verb /\ log[i].path = log[j].path) => i = j
    /\ \A i \in Failed(log) : \A j \in 1 .. Len(log) : IsRequest(log[j]) => j <= i
    /\ (Failed(log) # {} /\ ~RebootTriggerFailed) => exc = "HTTPError"

\* ---------------------------------------------------------------- C19
\* C19: when the page that get_settings() fetched shows no checked input
\* among encode / decode, or none among sdi / hdmi, the call raises the
\* assertion: it sends no request for the audio setup (the page request is
\* its only request), returns nothing and leaves the cached settings alone.
C19_UncheckedPageRaises ==
    [][(/\ op' = "web.get_settings"
        /\ arg' \in {"no_mode", "no_vout"}
        /\ RequestsTo(log', "videoset") # {}
        /\ Failed(log') = {}) =>
          /\ exc' = "AssertionError"
          /\ ret' = None
          /\ RequestsTo(log', "analogaudiosetup") = {}
          /\ Len(Requests(log')) = 1
          /\ clients'["web"].settings = clients["web"].settings]_vars

\* a page without a checked video output, fetched by a logged-in client
C19_Witness ==
    /\ op = "web.get_settings"
    /\ arg = "no_vout"
    /\ RequestsTo(log, "videoset") # {}
    /\ Failed(log) = {}
    /\ exc = "AssertionError"

\* ---------------------------------------------------------------- C20
\* the name set_source(arg) resolves its argument to
Resolved ==
    CASE arg.type = "int"       -> Listing[arg.v + 1].name
      [] arg.type = "NdiSource" -> arg.v.name
      [] arg.type = "str"       -> arg.v

\* the argument resolves without a failure
Resolves ==
    arg.type = "int" =>
        /\ \A i \in Failed(log) : log[i].path = "connectTo" /\ log[i].verb = "POST"
        /\ arg.v \in 0 .. (Len(Listing) - 1)

\* C20: set_source() sends at most one POST to 'connectTo', exactly one when
\* its argument resolves, carrying the resolved source name; it returns
\* normally if and only if that POST was answered with the literal
\* 'success', and raises the assertion for any other answer.
C20_SetSourceNeedsSuccess ==
    op = "set_source" =>
        /\ Cardinality(ConnectPosts(log)) <= 1
        /\ Resolves => Cardinality(ConnectPosts(log)) = 1
        /\ \A i \in ConnectPosts(log) :
              /\ log[i].data = <<[sourceName |-> Resolved]>>
              /\ (log[i].out = "ok" /\ arg.ack # "success") => exc = "AssertionError"
              /\ log[i].out # "ok" => exc = "HTTPError"
        /\ exc = "none" <=>
              \E i \in ConnectPosts(log) : log[i].out = "ok" /\ arg.ack = "success"

\* a source selected by name, and the device answering something else
C20_Witness ==
    /\ op = "set_source"
    /\ arg.type = "str"
    /\ arg.ack = "json"
    /\ \E i \in ConnectPosts(log) : log[i].out = "ok"
    /\ exc = "AssertionError"

\* ---------------------------------------------------------------- C21
\* open() has never been called on the client: the companion is made by the
\* first open() and the client keeps no other trace of it
NeverOpened == ~clients["comp"].exists

\* the call before this one was a close() that completed
JustClosed == op = "close" /\ exc = "none"

\* the releases of the call whose log is l that fail
FailedAcloses(l) == {i \in Acloses(l) : l[i].out = "error"}

\* what close() does in either case whatever the release does: no request,
\* no session released that was released before, is_open false; and the
\* second of two close() calls in a row has nothing to release
CloseIsQuiet ==
    (op' = "close" /\ (NeverOpened \/ JustClosed)) =>
        /\ ~clients["api"].auth_client
        /\ Requests(log') = <<>>
        /\ \A i \in Acloses(log') : closes[log'[i].sess] = 0
        /\ \A s \in Sessions : closes'[s] <= 1
        /\ ~clients'["api"].is_open
        /\ JustClosed => Acloses(log') = {} /\ closes' = closes

\* C21 as amended: close() on a client that was never opened, or called
\* again right after a completed close(), sends no request, releases no
\* session a second time and leaves is_open false; it completes without
\* error, except that a never-opened client which built a session of its
\* own for an earlier request releases it now, and a failure of that
\* release is the error of the call.  The repeated call never fails.
C21_CloseTolerantAndRepeatable ==
    [][/\ CloseIsQuiet
       /\ (op' = "close" /\ (NeverOpened \/ JustClosed)) =>
              /\ exc' = "none" <=> FailedAcloses(log') = {}
              /\ exc' \in {"none", "CloseError"}
              /\ JustClosed => exc' = "none"]_vars

\* C21 as written: in both cases close() completes without error
C21_CloseNeverFails ==
    [][/\ CloseIsQuiet
       /\ (op' = "close" /\ (NeverOpened \/ JustClosed)) => exc' = "none"]_vars

\* a client closed without ever having been opened, with nothing to release
C21_Witness ==
    /\ op = "close"
    /\ NeverOpened
    /\ exc = "none"
    /\ log # <<>>
    /\ Requests(log) = <<>>
    /\ Acloses(log) = {}
    /\ ~clients["api"].is_open

\* ---------------------------------------------------------------- C22
\* the web backend was built with a REST backend attached to it
Attached == clients["web"].api_client

AudioRequests(l) == RequestsTo(l, "analogaudiosetup")

\* the call whose log is l opened a REST client before its i-th event and
\* closed it after that event
Around(l, i) ==
    \E o \in At(l, "opened", "api"), c \in At(l, "closed", "api") : o < i /\ i < c

\* C22: a get_settings() of the web backend that gets as far as the audio
\* setup asks for it once.  With a REST backend attached the request is
\* that backend's, on that backend's session, and no client is opened or
\* closed.  Without one the request is sent by a REST client on the web
\* backend's own session, opened before the request and closed after it
\* whether the request succeeds or not; closing it releases no session and
\* sends no logout, and the web backend is as open and as logged in as
\* before, on the same session.
C22_AudioSetupThroughRestClient ==
    [][(op' = "web.get_settings" /\ AudioRequests(log') # {}) =>
          /\ Cardinality(AudioRequests(log')) = 1
          /\ \A i \in AudioRequests(log') :
                /\ log'[i].who = "api"
                /\ IF Attached
                   THEN /\ log'[i].sess = clients'["api"].session
                        /\ At(log', "opened", "api") = {}
                        /\ At(log', "closed", "api") = {}
                        /\ clients'["api"].is_open = clients["api"].is_open
                   ELSE /\ log'[i].sess = clients'["web"].session
                        /\ Around(log', i)
                        /\ ~clients'["api"].is_open
          /\ Acloses(log') = {}
          /\ closes' = closes
          /\ RequestsTo(log', "logout") = {}
          /\ clients'["web"].session # NoSession
          /\ clients'["web"].is_open = clients["web"].is_open
          /\ clients'["web"].logged_in
          /\ clients'["web"].api_client = Attached]_vars

\* an open web backend with no REST backend attached has fetched its
\* settings, and the client that fetched the audio setup is closed
C22_Witness ==
    /\ op = "web.get_settings"
    /\ ~Attached
    /\ exc = "none"
    /\ ret # None
    /\ \E i \in AudioRequests(log) : Around(log, i)
    /\ clients["web"].is_open
    /\ clients["web"].logged_in

\* the same call on a web backend with a REST backend attached
C22_AttachedReached ==
    /\ op = "web.get_settings"
    /\ Attached
    /\ exc = "none"
    /\ AudioRequests(log) # {}

====
